---- MODULE Spec2Model ----
(***************************************************************************)
(* Blackjack simulator (src/main.py): Card, Deck (the shoe), Hand, the     *)
(* Strategy interface with BasicStrategy, Game (one round), play_hand and  *)
(* simulate.                                                               *)
(*                                                                         *)
(* Money.  The program computes with floats; every amount that occurs is a *)
(* dyadic rational (bets and bankrolls are whole amounts, the only         *)
(* non-integer factor is the 1.5 of a blackjack payout, applied at most    *)
(* once per round).  An amount x is held as the integer x * Scale with     *)
(* Scale = 2^MaxHands, which keeps every product exact.                    *)
(***************************************************************************)
EXTENDS Integers, Sequences, FiniteSets, TLC

VARIABLES
    cards,              \* Deck.cards: the shoe, last element is drawn next
    num_decks,          \* Deck.num_decks
    did_reset,          \* history: the last draw() called reset()
    reshuffled,         \* history: a draw of the current round called
                        \* reset() while a hand already held a card
    player_hand,        \* Game.player_hand.cards
    dealer_hand,        \* Game.dealer_hand.cards
    strategy,           \* the Strategy instance passed to simulate
    num_hands,          \* simulate's num_hands
    starting_bankroll,  \* simulate's starting_bankroll
    bankroll,           \* simulate's bankroll
    wins, losses, pushes,
    hands_played,       \* iterations of simulate's for loop completed
    bet,                \* play_hand's bet
    payoff,             \* play_hand's payoff
    new_bankroll,       \* play_hand's new_bankroll
    result,             \* the value returned, or the exception raised
    pc                  \* position in the program

vars == <<cards, num_decks, did_reset, reshuffled, player_hand, dealer_hand, strategy,
          num_hands, starting_bankroll, bankroll, wins, losses, pushes,
          hands_played, bet, payoff, new_bankroll, result, pc>>

----------------------------------------------------------------------------
(* Bounds *)

MaxDecks == 2
MaxRiffles == 1
MaxHands == 3
MaxHandLen == 4
MaxResultLen == 3

\* amounts are held as multiples of 1/Scale
Scale == 2^MaxHands

None == "None"

----------------------------------------------------------------------------
(* Card *)

RANKS == <<"2", "3", "4", "5", "6", "7", "8", "9", "10", "J", "Q", "K", "A">>

RankSet == {RANKS[j] : j \in 1..Len(RANKS)}

\* int(rank) for the number ranks
int(rank) ==
    CASE rank = "2" -> 2 [] rank = "3" -> 3 [] rank = "4" -> 4
      [] rank = "5" -> 5 [] rank = "6" -> 6 [] rank = "7" -> 7
      [] rank = "8" -> 8 [] rank = "9" -> 9 [] rank = "10" -> 10

\* Card.value
card_value(rank) ==
    IF rank = "A" THEN 11
    ELSE IF rank \in {"J", "Q", "K"} THEN 10
    ELSE int(rank)

----------------------------------------------------------------------------
(* Deck *)

\* [Card(rank) for _ in range(num_decks) for rank in RANKS * 4]
FullDeck(nd) == [j \in 1..(nd * Len(RANKS) * 4) |-> RANKS[((j - 1) % Len(RANKS)) + 1]]

\* random.shuffle yields a permutation of the list.  The permutations
\* explored are those of up to MaxRiffles perfect riffles followed by a cut.
Riffle(s) ==
    [j \in 1..Len(s) |-> IF j % 2 = 1 THEN s[(j + 1) \div 2]
                         ELSE s[(Len(s) \div 2) + (j \div 2)]]

RECURSIVE RiffleN(_, _)
RiffleN(s, k) == IF k = 0 THEN s ELSE RiffleN(Riffle(s), k - 1)

Cut(s, c) == [j \in 1..Len(s) |-> s[((j - 1 + c) % Len(s)) + 1]]

shuffle(s) ==
    IF Len(s) = 0 THEN {s}
    ELSE {Cut(RiffleN(s, k), c) : k \in 0..MaxRiffles, c \in 0..(Len(s) - 1)}

\* Deck.reset: the possible contents of self.cards afterwards
reset(nd) == shuffle(FullDeck(nd))

NeedsResetOffByOne(n) == n <= 10

\* Deck.draw, line 35
NeedsReset(n) == n < 10

draw_peek(c, nd) ==
    LET decks == IF NeedsReset(Len(c)) THEN reset(nd) ELSE {c}
    IN  {[card |-> IF Len(d) = 0 THEN "IndexError" ELSE d[Len(d)],
          cards |-> d,
          did_reset |-> NeedsReset(Len(c))] : d \in decks}

\* Deck.draw: the possible outcomes of one call on a shoe holding c.
\* pop() on an empty list raises IndexError.
draw(c, nd) ==
    LET decks == IF NeedsReset(Len(c)) THEN reset(nd) ELSE {c}
    IN  {[card |-> IF Len(d) = 0 THEN "IndexError" ELSE d[Len(d)],
          cards |-> IF Len(d) = 0 THEN d ELSE SubSeq(d, 1, Len(d) - 1),
          did_reset |-> NeedsReset(Len(c))] : d \in decks}

----------------------------------------------------------------------------
(* The shoe on its own: Deck(num_decks) followed by draw() calls *)

IdleRound ==
    /\ player_hand = <<>> /\ dealer_hand = <<>>
    /\ strategy = None /\ num_hands = 0 /\ starting_bankroll = 0
    /\ bankroll = 0 /\ wins = 0 /\ losses = 0 /\ pushes = 0
    /\ hands_played = 0 /\ bet = 0 /\ payoff = 0 /\ new_bankroll = 0
    /\ result = None
    /\ reshuffled = FALSE

InitDeck ==
    /\ num_decks \in 1..MaxDecks
    /\ cards \in reset(num_decks)
    /\ did_reset = FALSE
    /\ IdleRound
    /\ pc = "deck"

DeckDraw ==
    /\ pc = "deck"
    /\ \E o \in draw(cards, num_decks) :
          /\ cards' = o.cards
          /\ did_reset' = o.did_reset
          /\ IF o.card = "IndexError"
             THEN pc' = "raised" /\ result' = "IndexError"
             ELSE pc' = pc /\ result' = o.card
    /\ UNCHANGED <<reshuffled, num_decks, player_hand, dealer_hand, strategy, num_hands,
                   starting_bankroll, bankroll, wins, losses, pushes,
                   hands_played, bet, payoff, new_bankroll>>

NextDeck == DeckDraw

SpecDeck == InitDeck /\ [][NextDeck]_vars

----------------------------------------------------------------------------
(* Hand *)

RECURSIVE SumValues(_)
SumValues(h) == IF h = <<>> THEN 0 ELSE card_value(Head(h)) + SumValues(Tail(h))

RECURSIVE CountAces(_)
CountAces(h) ==
    IF h = <<>> THEN 0 ELSE (IF Head(h) = "A" THEN 1 ELSE 0) + CountAces(Tail(h))

StillOverEager(total, aces) == total >= 21 /\ aces > 0

\* Hand.value, line 56: the condition of the reduction loop
StillOver(total, aces) == total > 21 /\ aces > 0

\* Hand.value, lines 56-58
RECURSIVE ReduceAces(_, _)
ReduceAces(total, aces) ==
    IF StillOver(total, aces) THEN ReduceAces(total - 10, aces - 1)
    ELSE <<total, aces>>

value_aces_high(h) == <<SumValues(h), CountAces(h) > 0>>

\* Hand.value: <<total, is_soft>>
value(h) ==
    LET r == ReduceAces(SumValues(h), CountAces(h))
    IN  <<r[1], r[2] > 0>>

\* Hand.is_blackjack
is_blackjack(h) == Len(h) = 2 /\ value(h)[1] = 21

----------------------------------------------------------------------------
(* One hand on its own: Hand() followed by add_card() and value() calls *)

InitValue ==
    /\ num_decks = 1 /\ cards = <<>> /\ did_reset = FALSE
    /\ IdleRound
    /\ pc = "hand"

HandAddCard ==
    /\ pc \in {"hand", "value"}
    /\ Len(player_hand) < MaxHandLen
    /\ \E rank \in RankSet : player_hand' = Append(player_hand, rank)
    /\ result' = None
    /\ pc' = "hand"
    /\ UNCHANGED <<reshuffled, cards, num_decks, did_reset, dealer_hand, strategy,
                   num_hands, starting_bankroll, bankroll, wins, losses,
                   pushes, hands_played, bet, payoff, new_bankroll>>

\* at "value", result holds what value() returned
HandValue ==
    /\ pc = "hand"
    /\ result' = value(player_hand)
    /\ pc' = "value"
    /\ UNCHANGED <<reshuffled, cards, num_decks, did_reset, player_hand, dealer_hand,
                   strategy, num_hands, starting_bankroll, bankroll, wins,
                   losses, pushes, hands_played, bet, payoff, new_bankroll>>

NextValue == HandAddCard \/ HandValue

SpecValue == InitValue /\ [][NextValue]_vars

----------------------------------------------------------------------------
(* Strategy *)

\* The strategies passed to simulate: the provided BasicStrategy, and an
\* arbitrary implementation of the interface ("Strategy").
Strategies == {"BasicStrategy", "Strategy"}

Min(a, b) == IF a < b THEN a ELSE b

get_bet_flat(st, b) ==
    IF st = "BasicStrategy" THEN {10 * Scale}
    ELSE {-Scale, 0, Scale, 2 * Scale, b + Scale}

\* Strategy.get_bet: the values the call may return
get_bet(st, b) ==
    IF st = "BasicStrategy" THEN {Min(10 * Scale, b)}
    ELSE {-Scale, 0, Scale, 2 * Scale, b + Scale}

\* Strategy.should_hit: the values the call may return
should_hit(st, player_value, is_soft, dealer_upcard) ==
    IF st = "BasicStrategy"
    THEN {IF is_soft THEN player_value < 18 ELSE player_value < 17}
    ELSE BOOLEAN

----------------------------------------------------------------------------
(* Game *)

\* bet * 1.5
TimesOneAndHalf(b) == (b * 3) \div 2

get_result_even_money(ph, dh, b) ==
    LET player_value == value(ph)[1]
        dealer_value == value(dh)[1]
    IN  IF player_value > 21 THEN -b
        ELSE IF is_blackjack(ph) /\ ~is_blackjack(dh) THEN b
        ELSE IF is_blackjack(dh) /\ ~is_blackjack(ph) THEN -b
        ELSE IF is_blackjack(ph) /\ is_blackjack(dh) THEN 0
        ELSE IF dealer_value > 21 THEN b
        ELSE IF player_value > dealer_value THEN b
        ELSE IF player_value < dealer_value THEN -b
        ELSE 0

\* Game.get_result
get_result(ph, dh, b) ==
    LET player_value == value(ph)[1]
        dealer_value == value(dh)[1]
    IN  IF player_value > 21 THEN -b
        ELSE IF is_blackjack(ph) /\ ~is_blackjack(dh) THEN TimesOneAndHalf(b)
        ELSE IF is_blackjack(dh) /\ ~is_blackjack(ph) THEN -b
        ELSE IF is_blackjack(ph) /\ is_blackjack(dh) THEN 0
        ELSE IF dealer_value > 21 THEN b
        ELSE IF player_value > dealer_value THEN b
        ELSE IF player_value < dealer_value THEN -b
        ELSE 0

DealerMustDrawSoft17(dh) == value(dh)[1] < 17 \/ value(dh) = <<17, TRUE>>

\* Game.dealer_plays, line 113: the condition of the loop
DealerMustDraw(dh) == value(dh)[1] < 17

----------------------------------------------------------------------------
(* Two hands on their own: add_card() calls on a Game's hands, then        *)
(* get_result(bet).  The cards come from ResultRanks.                      *)

ResultRanks == {"A", "K", "6", "5"}

ResultBets == {Scale, 10 * Scale}

InitResult ==
    /\ num_decks = 1 /\ cards = <<>> /\ did_reset = FALSE
    /\ IdleRound
    /\ pc = "game"

PlayerAddCard ==
    /\ pc \in {"game", "result"}
    /\ Len(player_hand) < MaxResultLen
    /\ \E rank \in ResultRanks : player_hand' = Append(player_hand, rank)
    /\ bet' = 0 /\ payoff' = 0 /\ pc' = "game"
    /\ UNCHANGED <<reshuffled, cards, num_decks, did_reset, dealer_hand, strategy,
                   num_hands, starting_bankroll, bankroll, wins, losses,
                   pushes, hands_played, new_bankroll, result>>

DealerAddCard ==
    /\ pc \in {"game", "result"}
    /\ Len(dealer_hand) < MaxResultLen
    /\ \E rank \in ResultRanks : dealer_hand' = Append(dealer_hand, rank)
    /\ bet' = 0 /\ payoff' = 0 /\ pc' = "game"
    /\ UNCHANGED <<reshuffled, cards, num_decks, did_reset, player_hand, strategy,
                   num_hands, starting_bankroll, bankroll, wins, losses,
                   pushes, hands_played, new_bankroll, result>>

\* at "result", payoff holds what get_result(bet) returned
GetResult ==
    /\ pc = "game"
    /\ \E b \in ResultBets :
          /\ bet' = b
          /\ payoff' = get_result(player_hand, dealer_hand, b)
    /\ pc' = "result"
    /\ UNCHANGED <<reshuffled, cards, num_decks, did_reset, player_hand, dealer_hand,
                   strategy, num_hands, starting_bankroll, bankroll, wins,
                   losses, pushes, hands_played, new_bankroll, result>>

NextResult == PlayerAddCard \/ DealerAddCard \/ GetResult

SpecResult == InitResult /\ [][NextResult]_vars

----------------------------------------------------------------------------
(* play_hand and simulate *)

StartingBankrolls == {-Scale, 0, 2 * Scale, 20 * Scale}

InvalidBetStrict(b, br) == b < 0 \/ b > br

\* play_hand, line 145
InvalidBet(b, br) == b <= 0 \/ b > br

AfterPlayerAlways(player_still_active) == "dealer_plays"

AfterPlayerNoReturn(player_still_active) ==
    IF player_still_active THEN "player_plays" ELSE "get_result"

\* play_hand, lines 153-156: the dealer plays only if the player is still active
AfterPlayer(player_still_active) ==
    IF player_still_active THEN "dealer_plays" ELSE "get_result"

\* play_hand, line 157
NewBankroll(br, b, p) == br - b + p

BankruptBelow(br) == br < 0

\* simulate, line 171
Bankrupt(br) == br <= 0

ClassifyPushAsWin(p) == IF p >= 0 THEN "wins" ELSE "losses"

\* simulate, lines 175-180
Classify(p) == IF p > 0 THEN "wins" ELSE IF p < 0 THEN "losses" ELSE "pushes"

----------------------------------------------------------------------------------------------------------------------------------------
(* Floats.  A Python float is a binary64: zero, or sign * m * 2^e with a    *)
(* 53-bit m.  Numbers wider than a machine word are held as sequences of    *)
(* bits, or of limbs (digits to the base 2^10), least significant first.    *)

Limb == 2^10

BitAt(b, j) == IF j <= Len(b) THEN b[j] ELSE 0

\* a bit sequence without its leading zero bits
BitsStrip(b) ==
    IF \A j \in 1..Len(b) : b[j] = 0 THEN <<>>
    ELSE SubSeq(b, 1, CHOOSE j \in 1..Len(b) :
                         b[j] = 1 /\ \A k \in (j + 1)..Len(b) : b[k] = 0)

\* the bits of a number 0 <= n < 2^30
Bits(n) == BitsStrip([j \in 1..30 |-> (n \div 2^(j - 1)) % 2])

ToBits(l) ==
    BitsStrip([j \in 1..(10 * Len(l)) |->
                  (l[((j - 1) \div 10) + 1] \div 2^((j - 1) % 10)) % 2])

ToLimbs(b) ==
    [i \in 1..((Len(b) + 9) \div 10) |->
        LET o == 10 * (i - 1)
        IN  BitAt(b, o + 1) + 2 * BitAt(b, o + 2) + 4 * BitAt(b, o + 3)
            + 8 * BitAt(b, o + 4) + 16 * BitAt(b, o + 5)
            + 32 * BitAt(b, o + 6) + 64 * BitAt(b, o + 7)
            + 128 * BitAt(b, o + 8) + 256 * BitAt(b, o + 9)
            + 512 * BitAt(b, o + 10)]

\* l * k + carry on limbs, for 1 <= k < 2^20
RECURSIVE LimbsTimes(_, _, _)
LimbsTimes(l, k, carry) ==
    IF l = <<>> THEN (IF carry = 0 THEN <<>>
                      ELSE <<carry % Limb>> \o LimbsTimes(l, k, carry \div Limb))
    ELSE LET t == Head(l) * k + carry
         IN  <<t % Limb>> \o LimbsTimes(Tail(l), k, t \div Limb)

\* b * k on bits
BitsTimes(b, k) == ToBits(LimbsTimes(ToLimbs(b), k, 0))

\* b * 2^n
BitsShl(b, n) == IF b = <<>> THEN b ELSE [j \in 1..n |-> 0] \o b

BitsAddOne(b) ==
    LET z == IF \A j \in 1..Len(b) : b[j] = 1 THEN Len(b) + 1
             ELSE CHOOSE j \in 1..Len(b) :
                     b[j] = 0 /\ \A k \in 1..(j - 1) : b[k] = 1
    IN  [j \in 1..(IF z > Len(b) THEN z ELSE Len(b)) |->
            IF j < z THEN 0 ELSE IF j = z THEN 1 ELSE b[j]]

FloatZero == [sign |-> 0, m |-> <<>>, e |-> 0]

\* sign * b * 2^e rounded to the nearest binary64, ties to even
Round(sign, b, e) ==
    IF b = <<>> THEN FloatZero
    ELSE IF Len(b) <= 53
    THEN [sign |-> sign, m |-> [j \in 1..(53 - Len(b)) |-> 0] \o b,
          e |-> e - (53 - Len(b))]
    ELSE LET d == Len(b) - 53
             kept == SubSeq(b, d + 1, Len(b))
             sticky == \E j \in 1..(d - 1) : b[j] = 1
             up == b[d] = 1 /\ (sticky \/ kept[1] = 1)
             inc == BitsAddOne(kept)
         IN  IF ~up THEN [sign |-> sign, m |-> kept, e |-> e + d]
             ELSE IF Len(inc) > 53
             THEN [sign |-> sign, m |-> SubSeq(inc, 2, 54), e |-> e + d + 1]
             ELSE [sign |-> sign, m |-> inc, e |-> e + d]

FractionLimbs == 9

\* long division: n more limbs of the quotient of r / b below those of acc,
\* <<quotient limbs, final remainder>>; b < 2^21
RECURSIVE DivLimbs(_, _, _, _)
DivLimbs(r, b, n, acc) ==
    IF n = 0 THEN <<acc, r>>
    ELSE DivLimbs((r * Limb) % b, b, n - 1, <<(r * Limb) \div b>> \o acc)

Abs(x) == IF x < 0 THEN -x ELSE x

\* a / b for numbers a, b that are integers (b # 0): the exact quotient,
\* rounded once; a bit below the quotient records a non-zero remainder
fdiv(a, b) ==
    IF a = 0 THEN FloatZero
    ELSE LET q == Abs(a) \div Abs(b)
             d == DivLimbs(Abs(a) % Abs(b), Abs(b), FractionLimbs,
                           <<q % Limb, (q \div Limb) % Limb,
                             q \div (Limb * Limb)>>)
             low == [j \in 1..(10 * Len(d[1])) |->
                        (d[1][((j - 1) \div 10) + 1] \div 2^((j - 1) % 10)) % 2]
         IN  Round(IF (a < 0) = (b < 0) THEN 1 ELSE -1,
                   BitsStrip(<<IF d[2] = 0 THEN 0 ELSE 1>> \o low),
                   -(10 * FractionLimbs + 1))

\* x * k for a float x and an integer 1 <= k < 2^20
fmul(x, k) == Round(x.sign, BitsTimes(x.m, k), x.e)

\* a / b * 100
Percent(a, b) == fmul(fdiv(a, b), 100)

SummaryPerPlayed ==
    [final_bankroll |-> bankroll,
     profit |-> bankroll - starting_bankroll,
     roi |-> Percent(bankroll - starting_bankroll, starting_bankroll),
     wins |-> wins, losses |-> losses, pushes |-> pushes,
     win_rate |-> Percent(wins, hands_played)]

\* simulate, lines 182-190
Summary ==
    [final_bankroll |-> bankroll,
     profit |-> bankroll - starting_bankroll,
     roi |-> Percent(bankroll - starting_bankroll, starting_bankroll),
     wins |-> wins, losses |-> losses, pushes |-> pushes,
     win_rate |-> Percent(wins, num_hands)]

\* some card of the current round is in a hand
HandsHoldCards == Len(player_hand) + Len(dealer_hand) > 0

\* simulate, lines 163-168
Init ==
    /\ num_decks \in 1..MaxDecks
    /\ cards \in reset(num_decks)
    /\ did_reset = FALSE
    /\ reshuffled = FALSE
    /\ strategy \in Strategies
    /\ num_hands \in 0..MaxHands
    /\ starting_bankroll \in StartingBankrolls
    /\ bankroll = starting_bankroll
    /\ wins = 0 /\ losses = 0 /\ pushes = 0
    /\ hands_played = 0
    /\ player_hand = <<>> /\ dealer_hand = <<>>
    /\ bet = 0 /\ payoff = 0 /\ new_bankroll = 0
    /\ result = None
    /\ pc = "for"

\* simulate, line 170: range(num_hands) is exhausted
LoopEnd ==
    /\ pc = "for"
    /\ hands_played = num_hands
    /\ pc' = "return"
    /\ UNCHANGED <<reshuffled, cards, num_decks, did_reset, player_hand, dealer_hand,
                   strategy, num_hands, starting_bankroll, bankroll, wins,
                   losses, pushes, hands_played, bet, payoff, new_bankroll,
                   result>>

\* simulate, lines 171-172
Break ==
    /\ pc = "for"
    /\ hands_played < num_hands
    /\ Bankrupt(bankroll)
    /\ pc' = "return"
    /\ UNCHANGED <<reshuffled, cards, num_decks, did_reset, player_hand, dealer_hand,
                   strategy, num_hands, starting_bankroll, bankroll, wins,
                   losses, pushes, hands_played, bet, payoff, new_bankroll,
                   result>>

\* simulate, line 173, and play_hand, lines 144-148
PlayHand ==
    /\ pc = "for"
    /\ hands_played < num_hands
    /\ ~Bankrupt(bankroll)
    /\ \E b \in get_bet(strategy, bankroll) :
          /\ bet' = b
          /\ IF InvalidBet(b, bankroll)
             THEN pc' = "raised" /\ result' = "ValueError"
             ELSE pc' = "deal" /\ result' = result
    /\ player_hand' = <<>> /\ dealer_hand' = <<>>
    /\ reshuffled' = FALSE
    /\ UNCHANGED <<cards, num_decks, did_reset, strategy, num_hands,
                   starting_bankroll, bankroll, wins, losses, pushes,
                   hands_played, payoff, new_bankroll>>

DealTargetPlayerFirst(ph, dh) == IF Len(ph) < 2 THEN "player" ELSE "dealer"

\* Game.deal, lines 95-98: the hand that receives the next dealt card
DealTarget(ph, dh) == IF Len(ph) = Len(dh) THEN "player" ELSE "dealer"

\* Game.deal, one draw per step
Deal ==
    /\ pc = "deal"
    /\ \E o \in draw(cards, num_decks) :
          /\ cards' = o.cards
          /\ did_reset' = o.did_reset
          /\ reshuffled' = (reshuffled \/ (o.did_reset /\ HandsHoldCards))
          /\ IF o.card = "IndexError"
             THEN /\ pc' = "raised" /\ result' = "IndexError"
                  /\ UNCHANGED <<player_hand, dealer_hand>>
             ELSE /\ result' = result
                  /\ IF DealTarget(player_hand, dealer_hand) = "player"
                     THEN /\ player_hand' = Append(player_hand, o.card)
                          /\ dealer_hand' = dealer_hand
                          /\ pc' = "deal"
                     ELSE /\ dealer_hand' = Append(dealer_hand, o.card)
                          /\ player_hand' = player_hand
                          /\ pc' = IF Len(dealer_hand') = 2 THEN "player_plays"
                                   ELSE "deal"
    /\ UNCHANGED <<num_decks, strategy, num_hands, starting_bankroll,
                   bankroll, wins, losses, pushes, hands_played, bet, payoff,
                   new_bankroll>>

BustAbove22(h) == value(h)[1] > 22

\* Game.player_plays, line 107: the hit ended the player turn
Bust(h) == value(h)[1] > 21

\* what player_plays passes to should_hit, lines 102-103
PlayerView ==
    [player_value |-> value(player_hand)[1],
     is_soft |-> value(player_hand)[2],
     dealer_upcard |-> card_value(dealer_hand[1])]

\* Game.player_plays, lines 105-108
PlayerHit ==
    /\ pc = "player_plays"
    /\ TRUE \in should_hit(strategy, PlayerView.player_value,
                           PlayerView.is_soft, PlayerView.dealer_upcard)
    /\ \E o \in draw(cards, num_decks) :
          /\ cards' = o.cards
          /\ did_reset' = o.did_reset
          /\ reshuffled' = (reshuffled \/ (o.did_reset /\ HandsHoldCards))
          /\ IF o.card = "IndexError"
             THEN /\ pc' = "raised" /\ result' = "IndexError"
                  /\ player_hand' = player_hand
             ELSE /\ result' = result
                  /\ player_hand' = Append(player_hand, o.card)
                  /\ pc' = IF Bust(player_hand')
                           THEN AfterPlayer(FALSE) ELSE "player_plays"
    /\ UNCHANGED <<num_decks, dealer_hand, strategy, num_hands,
                   starting_bankroll, bankroll, wins, losses, pushes,
                   hands_played, bet, payoff, new_bankroll>>

\* Game.player_plays, lines 109-110
PlayerStand ==
    /\ pc = "player_plays"
    /\ FALSE \in should_hit(strategy, PlayerView.player_value,
                            PlayerView.is_soft, PlayerView.dealer_upcard)
    /\ pc' = AfterPlayer(TRUE)
    /\ UNCHANGED <<reshuffled, cards, num_decks, did_reset, player_hand, dealer_hand,
                   strategy, num_hands, starting_bankroll, bankroll, wins,
                   losses, pushes, hands_played, bet, payoff, new_bankroll,
                   result>>

\* Game.dealer_plays, lines 113-114
DealerDraw ==
    /\ pc = "dealer_plays"
    /\ DealerMustDraw(dealer_hand)
    /\ \E o \in draw(cards, num_decks) :
          /\ cards' = o.cards
          /\ did_reset' = o.did_reset
          /\ reshuffled' = (reshuffled \/ (o.did_reset /\ HandsHoldCards))
          /\ IF o.card = "IndexError"
             THEN /\ pc' = "raised" /\ result' = "IndexError"
                  /\ dealer_hand' = dealer_hand
             ELSE /\ result' = result
                  /\ dealer_hand' = Append(dealer_hand, o.card)
                  /\ pc' = pc
    /\ UNCHANGED <<num_decks, player_hand, strategy, num_hands,
                   starting_bankroll, bankroll, wins, losses, pushes,
                   hands_played, bet, payoff, new_bankroll>>

\* Game.dealer_plays returns
DealerStand ==
    /\ pc = "dealer_plays"
    /\ ~DealerMustDraw(dealer_hand)
    /\ pc' = "get_result"
    /\ UNCHANGED <<reshuffled, cards, num_decks, did_reset, player_hand, dealer_hand,
                   strategy, num_hands, starting_bankroll, bankroll, wins,
                   losses, pushes, hands_played, bet, payoff, new_bankroll,
                   result>>

\* play_hand, lines 156-159
Settle ==
    /\ pc = "get_result"
    /\ payoff' = get_result(player_hand, dealer_hand, bet)
    /\ new_bankroll' = NewBankroll(bankroll, bet, payoff')
    /\ pc' = "returned"
    /\ UNCHANGED <<reshuffled, cards, num_decks, did_reset, player_hand, dealer_hand,
                   strategy, num_hands, starting_bankroll, bankroll, wins,
                   losses, pushes, hands_played, bet, result>>

\* simulate, lines 173-180: the round's outcome is folded into the run
Count ==
    /\ pc = "returned"
    /\ bankroll' = new_bankroll
    /\ wins' = wins + (IF Classify(payoff) = "wins" THEN 1 ELSE 0)
    /\ losses' = losses + (IF Classify(payoff) = "losses" THEN 1 ELSE 0)
    /\ pushes' = pushes + (IF Classify(payoff) = "pushes" THEN 1 ELSE 0)
    /\ hands_played' = hands_played + 1
    /\ player_hand' = <<>> /\ dealer_hand' = <<>>
    /\ pc' = "for"
    /\ reshuffled' = FALSE
    /\ UNCHANGED <<cards, num_decks, did_reset, strategy, num_hands,
                   starting_bankroll, bet, payoff, new_bankroll, result>>

\* simulate, lines 182-190: the divisions by starting_bankroll and num_hands
Return ==
    /\ pc = "return"
    /\ IF starting_bankroll = 0 \/ num_hands = 0
       THEN pc' = "raised" /\ result' = "ZeroDivisionError"
       ELSE pc' = "done" /\ result' = Summary
    /\ UNCHANGED <<reshuffled, cards, num_decks, did_reset, player_hand, dealer_hand,
                   strategy, num_hands, starting_bankroll, bankroll, wins,
                   losses, pushes, hands_played, bet, payoff, new_bankroll>>

Next ==
    \/ LoopEnd \/ Break \/ PlayHand \/ Deal \/ PlayerHit \/ PlayerStand
    \/ DealerDraw \/ DealerStand \/ Settle \/ Count \/ Return

Spec == Init /\ [][Next]_vars

----------------------------------------------------------------------------
(* The program as the entry point runs it (lines 193-195): BasicStrategy,  *)
(* one deck, the default starting bankroll or a single bet's worth, and    *)
(* LongHands hands, enough to draw the shoe down to a reshuffle.           *)

LongHands == 10

InitLong ==
    /\ num_decks = 1
    /\ cards \in reset(num_decks)
    /\ did_reset = FALSE
    /\ reshuffled = FALSE
    /\ strategy = "BasicStrategy"
    /\ num_hands = LongHands
    /\ starting_bankroll \in {10 * Scale, 10000 * Scale}
    /\ bankroll = starting_bankroll
    /\ wins = 0 /\ losses = 0 /\ pushes = 0
    /\ hands_played = 0
    /\ player_hand = <<>> /\ dealer_hand = <<>>
    /\ bet = 0 /\ payoff = 0 /\ new_bankroll = 0
    /\ result = None
    /\ pc = "for"

SpecLong == InitLong /\ [][Next]_vars

\* every step moves the control point, the shoe or a hand
progress == <<pc, cards, player_hand, dealer_hand>>

FairHands == 2

\* simulate called on one deck for at most FairHands hands
InitFair ==
    /\ num_decks = 1
    /\ cards \in reset(num_decks)
    /\ did_reset = FALSE
    /\ reshuffled = FALSE
    /\ strategy \in Strategies
    /\ num_hands \in 0..FairHands
    /\ starting_bankroll \in StartingBankrolls
    /\ bankroll = starting_bankroll
    /\ wins = 0 /\ losses = 0 /\ pushes = 0
    /\ hands_played = 0
    /\ player_hand = <<>> /\ dealer_hand = <<>>
    /\ bet = 0 /\ payoff = 0 /\ new_bankroll = 0
    /\ result = None
    /\ pc = "for"

\* the return statement of simulate, by its effect on the control point
ReturnTaken == pc = "return" /\ pc' \in {"done", "raised"}

\* the program is sequential: it always takes its next step
SpecFair ==
    /\ InitFair /\ [][Next]_vars
    /\ WF_progress(pc # "return" /\ Next)
    /\ WF_pc(ReturnTaken)

\* every product with 1.5 is exact
ExactMoney == pc = "get_result" => bet % 2 = 0

----------------------------------------------------------------------------
(* Claims *)

CardsPerDeck == Len(RANKS) * 4

\* the sum of a hand with every Ace counted as 1
RECURSIVE HardSum(_)
HardSum(h) ==
    IF h = <<>> THEN 0
    ELSE (IF Head(h) = "A" THEN 1 ELSE card_value(Head(h))) + HardSum(Tail(h))

\* the sums obtainable by counting each Ace as 1 or 11
AceSums(h) ==
    {HardSum(h) + 10 * k : k \in 0..Cardinality({j \in DOMAIN h : h[j] = "A"})}

BestTotal(h) ==
    IF \E s \in AceSums(h) : s <= 21
    THEN CHOOSE s \in AceSums(h) :
            s <= 21 /\ \A t \in AceSums(h) : t <= 21 => t <= s
    ELSE HardSum(h)

\* C1: a round that ends in a push (payoff 0) returns the bet: the new
\* bankroll play_hand returns equals the bankroll it was given.
C1_PushReturnsBet ==
    (pc = "returned" /\ payoff = 0) => new_bankroll = bankroll

\* C2: simulate with num_hands = 0 and a positive starting bankroll does not
\* end in a division error; it returns a summary with wins = losses =
\* pushes = 0.
C2_ZeroHands ==
    (num_hands = 0 /\ starting_bankroll > 0) =>
        /\ pc # "raised"
        /\ pc = "done" =>
              result.wins = 0 /\ result.losses = 0 /\ result.pushes = 0

\* C3: play_hand raises the invalid-bet error exactly when the bet is <= 0
\* or exceeds the bankroll; the round is then aborted before any card is
\* dealt (shoe and hands untouched), and nothing runs after the error.
C3_InvalidBet ==
    /\ [][(pc = "for" /\ pc' \in {"raised", "deal"}) =>
            /\ (pc' = "raised" /\ result' = "ValueError")
                  <=> (bet' <= 0 \/ bet' > bankroll)
            /\ pc' = "raised" =>
                  /\ cards' = cards /\ did_reset' = did_reset
                  /\ player_hand' = <<>> /\ dealer_hand' = <<>>
                  /\ bankroll' = bankroll]_vars
    /\ [][pc # "raised"]_vars

C3_Witness ==
    pc = "raised" /\ result = "ValueError" /\ bet > bankroll /\ bet > 0
    /\ hands_played > 0

\* C4: apart from the invalid bet and zero requested hands, simulate never
\* ends in an error, whatever the starting bankroll.
C4_NoOtherFailure ==
    pc = "raised" => (result = "ValueError" \/ num_hands = 0)

\* C5: a draw resets the shoe exactly when fewer than 10 cards remain before
\* it; afterwards the count is previous - 1, or num_decks*52 - 1 after a
\* reset; the count stays within 9..num_decks*52 and no draw finds the shoe
\* empty.
C5_ShoeCount ==
    /\ [](Len(cards) \in 9..(num_decks * CardsPerDeck) /\ pc # "raised")
    /\ [][/\ did_reset' <=> Len(cards) < 10
          /\ Len(cards') = IF did_reset' THEN num_decks * CardsPerDeck - 1
                           ELSE Len(cards) - 1]_vars

C5_Witness ==
    pc = "deck" /\ did_reset /\ num_decks = 2
    /\ Len(cards) = 2 * CardsPerDeck - 1

\* C6: get_result returns the payoff of the first matching rule, in the
\* order bust, player blackjack only, dealer blackjack only, both blackjack,
\* dealer bust, higher, lower, equal; the payoff is one of -bet, 0, bet,
\* 1.5*bet.
C6_OrderedRules ==
    /\ get_result(<<"A", "K">>, <<"10", "9">>, 10 * Scale) = 15 * Scale
    /\ get_result(<<"10", "7">>, <<"10", "6", "4">>, 10 * Scale) = -10 * Scale
    /\ get_result(<<"A", "Q">>, <<"A", "K">>, 10 * Scale) = 0
    /\ pc = "result" =>
         LET pt == value(player_hand)[1]
             dt == value(dealer_hand)[1]
             pbj == Len(player_hand) = 2 /\ pt = 21
             dbj == Len(dealer_hand) = 2 /\ dt = 21
             r1 == pt > 21
             r2 == pbj /\ ~dbj
             r3 == dbj /\ ~pbj
             r4 == pbj /\ dbj
             r5 == dt > 21
             r6 == pt > dt
             r7 == pt < dt
             r8 == pt = dt
         IN  /\ r1 => payoff = -bet
             /\ (~r1 /\ r2) => 2 * payoff = 3 * bet
             /\ (~r1 /\ ~r2 /\ r3) => payoff = -bet
             /\ (~r1 /\ ~r2 /\ ~r3 /\ r4) => payoff = 0
             /\ (~r1 /\ ~r2 /\ ~r3 /\ ~r4 /\ r5) => payoff = bet
             /\ (~r1 /\ ~r2 /\ ~r3 /\ ~r4 /\ ~r5 /\ r6) => payoff = bet
             /\ (~r1 /\ ~r2 /\ ~r3 /\ ~r4 /\ ~r5 /\ ~r6 /\ r7) => payoff = -bet
             /\ (~r1 /\ ~r2 /\ ~r3 /\ ~r4 /\ ~r5 /\ ~r6 /\ ~r7 /\ r8)
                   => payoff = 0
             /\ r1 \/ r2 \/ r3 \/ r4 \/ r5 \/ r6 \/ r7 \/ r8
             /\ \/ payoff = -bet \/ payoff = 0 \/ payoff = bet
                \/ 2 * payoff = 3 * bet

C6_Witness ==
    /\ pc = "result" /\ bet = 10 * Scale /\ payoff = 15 * Scale
    /\ Len(player_hand) = 2 /\ value(player_hand)[1] = 21
    /\ Len(dealer_hand) = 3 /\ value(dealer_hand)[1] = 21

\* C7: when the player's total exceeds 21 after a hit, the dealer turn is
\* skipped: at settlement the dealer hand holds its two dealt cards only and
\* the payoff is -bet, whatever the dealer's total.
C7_BustSkipsDealer ==
    (pc \in {"get_result", "returned"} /\ value(player_hand)[1] > 21) =>
        /\ Len(dealer_hand) = 2
        /\ pc = "returned" => payoff = -bet

C7_Witness ==
    /\ pc = "returned" /\ value(player_hand)[1] > 21
    /\ is_blackjack(dealer_hand) /\ payoff = -bet

\* C8: simulate starts no round while the bankroll is <= 0: from then on no
\* card is drawn and no counter changes, the loop is left at once, and if
\* fewer than num_hands rounds were completed the counters sum to less than
\* num_hands.
C8_Bankruptcy ==
    /\ [](bankroll <= 0 => pc \in {"for", "return", "done", "raised"})
    /\ [][bankroll <= 0 =>
            /\ cards' = cards
            /\ wins' = wins /\ losses' = losses /\ pushes' = pushes
            /\ hands_played' = hands_played
            /\ pc = "for" => pc' = "return"]_vars
    /\ []((pc \in {"return", "done", "raised"} /\ bankroll <= 0
             /\ hands_played < num_hands)
            => wins + losses + pushes < num_hands)

C8_Witness ==
    /\ pc = "done" /\ bankroll <= 0 /\ starting_bankroll > 0
    /\ hands_played < num_hands

\* C9: every round played replaces the bankroll by bankroll - bet + payoff
\* and increments exactly the counter chosen by the sign of the payoff;
\* wins + losses + pushes is the number of rounds played and never exceeds
\* num_hands; the reported profit is final bankroll minus starting bankroll.
C9_Accounting ==
    /\ [](/\ wins + losses + pushes = hands_played
          /\ hands_played <= num_hands)
    /\ [][pc = "returned" =>
            /\ bankroll' = bankroll - bet + payoff
            /\ hands_played' = hands_played + 1
            /\ wins' = wins + (IF payoff > 0 THEN 1 ELSE 0)
            /\ losses' = losses + (IF payoff < 0 THEN 1 ELSE 0)
            /\ pushes' = pushes + (IF payoff = 0 THEN 1 ELSE 0)]_vars
    /\ [](pc = "done" =>
            /\ result.final_bankroll = bankroll
            /\ result.profit = bankroll - starting_bankroll
            /\ result.wins = wins /\ result.losses = losses
            /\ result.pushes = pushes)

C9_Witness ==
    pc = "done" /\ wins > 0 /\ losses > 0 /\ pushes > 0

\* C10 as stated: value() returns the largest sum <= 21 obtainable by
\* counting each Ace as 1 or 11 if there is one, else the sum with every Ace
\* as 1; is_soft iff an Ace counts 11 in it; a total > 21 is never soft and
\* a soft total is between 12 and 21.
C10_AsStated ==
    pc = "value" =>
        /\ result[1] = BestTotal(player_hand)
        /\ result[2] <=> result[1] > HardSum(player_hand)
        /\ result[1] > 21 => ~result[2]
        /\ result[2] => result[1] \in 12..21

\* C10 amended: as above, but a soft total is between 11 and 21, and
\* between 12 and 21 for a hand of two or more cards.
C10_BestTotal ==
    pc = "value" =>
        /\ result[1] = BestTotal(player_hand)
        /\ result[2] <=> result[1] > HardSum(player_hand)
        /\ result[1] > 21 => ~result[2]
        /\ result[2] => result[1] \in 11..21
        /\ (result[2] /\ Len(player_hand) >= 2) => result[1] \in 12..21

C10_Witness ==
    pc = "value" /\ player_hand = <<"A">> /\ result = <<11, TRUE>>

\* C11: with BasicStrategy simulate never ends in the invalid-bet error: in
\* every round started the bet is min(10, bankroll) and 0 < bet <= bankroll.
C11_BasicBetValid ==
    strategy = "BasicStrategy" =>
        /\ ~(pc = "raised" /\ result = "ValueError")
        /\ pc \in {"deal", "player_plays", "dealer_plays", "get_result",
                   "returned"} =>
              /\ bet = (IF bankroll < 10 * Scale THEN bankroll ELSE 10 * Scale)
              /\ 0 < bet /\ bet <= bankroll

C11_Witness ==
    /\ strategy = "BasicStrategy" /\ pc = "returned"
    /\ bet = bankroll /\ bet < 10 * Scale

\* a < b on bit sequences without leading zeros
BitsLess(a, b) ==
    \/ Len(a) < Len(b)
    \/ /\ Len(a) = Len(b)
       /\ \E j \in 1..Len(a) :
             a[j] < b[j] /\ \A k \in (j + 1)..Len(a) : a[k] = b[k]

RECURSIVE LimbsAdd(_, _, _)
LimbsAdd(a, b, carry) ==
    IF a = <<>> /\ b = <<>> THEN (IF carry = 0 THEN <<>> ELSE <<carry>>)
    ELSE LET t == (IF a = <<>> THEN 0 ELSE Head(a))
                  + (IF b = <<>> THEN 0 ELSE Head(b)) + carry
         IN  <<t % Limb>> \o LimbsAdd(IF a = <<>> THEN a ELSE Tail(a),
                                      IF b = <<>> THEN b ELSE Tail(b),
                                      t \div Limb)

BitsAdd(a, b) == ToBits(LimbsAdd(ToLimbs(a), ToLimbs(b), 0))

\* win_rate * num_hands and wins * 100 as exact numbers, both times 2^-e
\* for the exponent e <= 0 of win_rate
WinRateTimesHands == BitsTimes(result.win_rate.m, num_hands)
WinsTimes100 == BitsShl(Bits(wins * 100), -result.win_rate.e)

\* C12 as stated: the win_rate of the summary is wins / num_hands * 100 with
\* the requested num_hands: win_rate * num_hands = wins * 100.
C12_AsStated ==
    pc = "done" =>
        /\ result.win_rate.e <= 0
        /\ WinRateTimesHands = WinsTimes100

\* C12 amended: win_rate is the float wins / num_hands * 100 (each operation
\* rounded), the divisor being the requested num_hands also after an early
\* stop; win_rate * num_hands differs from wins * 100 by at most
\* wins * 100 * 2^-51.
C12_RequestedCount ==
    pc = "done" =>
        /\ result.win_rate = fmul(fdiv(wins, num_hands), 100)
        /\ result.win_rate.e <= 0
        /\ ~BitsLess(BitsAdd(BitsShl(WinsTimes100, 51), WinsTimes100),
                     BitsShl(WinRateTimesHands, 51))
        /\ ~BitsLess(BitsAdd(BitsShl(WinRateTimesHands, 51), WinsTimes100),
                     BitsShl(WinsTimes100, 51))

C12_Witness ==
    /\ pc = "done" /\ hands_played < num_hands /\ wins > 0
    /\ WinRateTimesHands # WinsTimes100

\* a hit: Hand.add_card on a hand of the player turn, which holds at least
\* two cards and has a total of at most 21
IsHit ==
    /\ Len(player_hand) >= 2 /\ value(player_hand)[1] <= 21
    /\ Len(player_hand') = Len(player_hand) + 1

\* C13 as stated: every hit during the player turn strictly increases the
\* player's total.
C13_AsStated ==
    [][IsHit => value(player_hand')[1] > value(player_hand)[1]]_vars

\* the value of a card with an Ace counted as 1
LowValue(card) == IF card = "A" THEN 1 ELSE card_value(card)

\* C13 amended: a hit strictly increases the player's total, except when
\* the hand is soft and the card drawn, with an Ace counted as 1, would
\* take the total above 21: then the new total is the old total plus that
\* value minus 10, which is not greater than the old total.
C13_HitTotal ==
    [][IsHit =>
          LET before == value(player_hand)
              after == value(player_hand')[1]
              low == LowValue(player_hand'[Len(player_hand')])
          IN  IF before[2] /\ before[1] + low > 21
              THEN after = before[1] + low - 10 /\ after <= before[1]
              ELSE after > before[1]]_vars

C13_Witness ==
    /\ Len(player_hand) = 3
    /\ value(SubSeq(player_hand, 1, 2)) = <<17, TRUE>>
    /\ value(player_hand) = <<17, FALSE>>

\* C14: every round terminates and simulate finishes after at most
\* num_hands rounds: every run ends, returning the summary or raising.
C14_Terminates ==
    /\ <>(pc \in {"done", "raised"})
    /\ [](hands_played <= num_hands)

C14_Witness ==
    /\ pc = "done" /\ strategy = "Strategy"
    /\ hands_played = num_hands /\ num_hands = FairHands

\* one step of the dealer turn: a draw iff the total is below 17, else the
\* turn ends with the hand untouched
DealerTurnStep ==
    IF value(dealer_hand)[1] < 17
    THEN Len(dealer_hand') = Len(dealer_hand) + 1 /\ pc' = "dealer_plays"
    ELSE dealer_hand' = dealer_hand /\ pc' = "get_result"

\* C15: when the player did not bust the dealer draws exactly while the
\* dealer total is below 17 and never at 17 or more, hard or soft; at
\* settlement of such a round the dealer total is between 17 and 26.
C15_DealerRule ==
    /\ [](pc = "dealer_plays" => value(player_hand)[1] <= 21)
    /\ []((pc = "get_result" /\ value(player_hand)[1] <= 21) =>
             value(dealer_hand)[1] \in 17..26)
    /\ [][pc = "dealer_plays" => DealerTurnStep]_vars
    /\ [][Len(dealer_hand') > Len(dealer_hand) =>
             pc \in {"deal", "dealer_plays"}]_vars

C15_Witness ==
    /\ pc = "get_result" /\ value(player_hand)[1] <= 21
    /\ value(dealer_hand) = <<17, TRUE>>

\* card is what the step's draw() returned: the last card of the shoe, or
\* of a reshuffled full shoe when the draw reset it
Drawn(card) ==
    IF did_reset' THEN Append(cards', card) \in reset(num_decks)
    ELSE Append(cards', card) = cards

\* one draw of Game.deal: the 1st and 3rd go to the player, the 2nd and
\* 4th to the dealer
DealStep ==
    \E card \in RankSet :
        /\ Drawn(card)
        /\ IF (Len(player_hand) + Len(dealer_hand)) % 2 = 0
           THEN /\ player_hand' = Append(player_hand, card)
                /\ dealer_hand' = dealer_hand
           ELSE /\ dealer_hand' = Append(dealer_hand, card)
                /\ player_hand' = player_hand
        /\ pc' = IF Len(player_hand') + Len(dealer_hand') = 4
                 THEN "player_plays" ELSE "deal"

\* C16: a round starts with two empty hands; dealing takes the next four
\* draws of the shoe in the order player, dealer, player, dealer, leaving
\* two cards in each hand; the upcard shown to should_hit throughout the
\* player turn is the value of the dealer's first card, the 2nd card drawn.
C16_DealOrder ==
    /\ [][(pc = "for" /\ pc' = "deal") =>
             (player_hand' = <<>> /\ dealer_hand' = <<>>)]_vars
    /\ [](pc = "deal" => Len(player_hand) + Len(dealer_hand) < 4)
    /\ [][pc = "deal" => DealStep]_vars
    /\ [](pc = "player_plays" =>
             /\ Len(dealer_hand) = 2 /\ Len(player_hand) >= 2
             /\ PlayerView.dealer_upcard = card_value(dealer_hand[1]))
    /\ [][pc = "player_plays" =>
             /\ dealer_hand' = dealer_hand
             /\ SubSeq(player_hand', 1, Len(player_hand)) = player_hand]_vars

C16_Witness ==
    /\ pc = "player_plays" /\ hands_played >= 1
    /\ Len(player_hand) = 3 /\ player_hand[1] # player_hand[2]
    /\ dealer_hand[1] # dealer_hand[2] /\ dealer_hand[1] # player_hand[1]

\* C17: started on a non-negative bankroll, with every bet accepted by
\* play_hand (0 < bet <= bankroll), the bankroll is never negative.
C17_NonNegative ==
    (starting_bankroll >= 0 /\ pc # "raised") => bankroll >= 0

\* the number of cards of a rank in a hand or shoe
RankCount(s, rank) == Cardinality({j \in DOMAIN s : s[j] = rank})

\* the cards of a rank in the player hand, the dealer hand and the shoe
RankHeld(rank) ==
    RankCount(player_hand, rank) + RankCount(dealer_hand, rank)
        + RankCount(cards, rank)

\* C18 as stated: at every point of a round, also after a reshuffle in the
\* middle of the round, no rank is held more than 4 * num_decks times in
\* the player hand, the dealer hand and the shoe together.
C18_AsStated == \A rank \in RankSet : RankHeld(rank) <= 4 * num_decks

\* C18 amended: within a round draws are without replacement as long as no
\* draw of the round reshuffled the shoe while a hand held a card: until
\* then every rank is held exactly 4 * num_decks times or fewer in the two
\* hands and the shoe together, and every draw removes from the shoe the
\* card it hands out.  A reshuffle in the middle of a round rebuilds the
\* full shoe while the hands keep their cards; from then on a rank is held
\* at most 4 * num_decks times in the shoe plus its count in the hands.
C18_WithoutReplacement ==
    /\ [](\A rank \in RankSet :
             /\ RankCount(cards, rank) <= 4 * num_decks
             /\ ~reshuffled => RankHeld(rank) <= 4 * num_decks)
    /\ [][(~reshuffled' /\ Len(player_hand') + Len(dealer_hand')
                             > Len(player_hand) + Len(dealer_hand)) =>
             \A rank \in RankSet :
                 RankHeld(rank)' = IF did_reset' THEN 4 * num_decks
                                   ELSE RankHeld(rank)]_vars

C18_Witness ==
    /\ pc = "dealer_plays" /\ ~reshuffled /\ hands_played >= 1
    /\ Len(cards) > 40 /\ Len(dealer_hand) >= 3

\* C19: every call of should_hit receives the total and softness of the
\* current player hand, a total between 4 and 21, and a dealer upcard
\* value between 2 and 11: the strategy never decides on a busted hand.
C19_ViewInRange ==
    pc = "player_plays" =>
        /\ PlayerView.player_value \in 4..21
        /\ PlayerView.dealer_upcard \in 2..11
        /\ <<PlayerView.player_value, PlayerView.is_soft>> = value(player_hand)
        /\ PlayerView.player_value \in AceSums(player_hand)

C19_Witness ==
    /\ pc = "player_plays" /\ Len(player_hand) >= 3
    /\ PlayerView.player_value = 21

====
